---- MODULE Spec2Model ----
(***************************************************************************)
(* Co-occurrence graph construction of the nexus text-network analyser:    *)
(* GraphBuilder.build_graph_from_sentences (src/src/graph/graph_builder.py)*)
(* and its function-style variant (src/src/graph_builder.py), with the     *)
(* entity extractor they call.                                             *)
(*                                                                         *)
(* An entity name is a natural number: its rank in Python's string order,  *)
(* so that sorted([e1, e2]) is the comparison of the two ranks.  A         *)
(* sentence is what the builder reads of a spaCy span: the sequence of its *)
(* entity mentions (sentence.ents), each with a text and a label_.         *)
(* Counter and dict objects are functions whose DOMAIN is the key set.     *)
(* A confidence or score is an integer number of ten-thousandths (the      *)
(* resolution SentimentResult.__post_init__ rounds confidences to).        *)
(***************************************************************************)
EXTENDS Integers, Sequences, FiniteSets, TLC

\* ------------------------------------------------------------------ bounds
NumEntities == 3
MaxMentions == 3
MaxSentences == 2
MaxThreshold == 3
\* The one-sentence documents of SpecWide
NumWideEntities == 4
MaxWideMentions == 4
\* The documents of SpecAgain, where build_graph_from_sentences is called twice
NumAgainEntities == 2
MaxAgainSentences == 3
MaxCalls == 2
\* The documents of SpecScenario
MaxScenarioSentences == 3
\* batch_size: int = 32
DefaultBatchSize == 32
\* The calls of SentimentAnalyzer.analyze: the texts, the length of a list of
\* texts and the batch sizes
NumTexts == 2
MaxTexts == 3
MaxBatchSize == 3

Entities == 1..NumEntities

\* The mentions a sentence can hold: every name labelled PERSON, and one mention
\* that carries another label (the default extractor drops it).
Mentions ==
    [text : Entities, label_ : {"PERSON"}] \cup {[text |-> 1, label_ |-> "ORG"]}

\* ------------------------------------------------------------------ helpers
SeqsUpTo(S, n) == UNION {[1..k -> S] : k \in 0..n}

Range(f) == {f[x] : x \in DOMAIN f}

\* The orders in which iterating a Python set can yield its elements.
RECURSIVE IterationOrders(_)
IterationOrders(S) ==
    IF S = {} THEN {<<>>}
    ELSE UNION {{<<x>> \o o : o \in IterationOrders(S \ {x})} : x \in S}

\* collections.Counter: c[k] of a missing key is 0 and inserts nothing.
CounterGet(c, k) == IF k \in DOMAIN c THEN c[k] ELSE 0


\* Mutant of CounterInc: a count that has reached 2 decays to 1
CounterIncDecaying(c, k) ==
    IF k \in DOMAIN c THEN [c EXCEPT ![k] = IF @ >= 2 THEN 1 ELSE @ + 1] ELSE c @@ (k :> 1)

\* c[k] += 1
CounterInc(c, k) ==
    IF k \in DOMAIN c THEN [c EXCEPT ![k] = @ + 1] ELSE c @@ (k :> 1)

EmptyDict == [k \in {} |-> 0]

\* Optional values: None is the empty sequence, a value x is <<x>>.
None == <<>>
Some(x) == <<x>>

RECURSIVE SumSeq(_)
SumSeq(s) == IF s = <<>> THEN 0 ELSE s[1] + SumSeq(Tail(s))

\* ------------------------------------------------------------------ entity extractor
\* EntityExtractor.__init__: entity_types or ["PERSON"]
EntityExtractorInit(entity_types_arg) ==
    IF entity_types_arg = None \/ entity_types_arg[1] = {} THEN {"PERSON"}
    ELSE entity_types_arg[1]

\* EntityExtractor.extract_entities_from_sentence
extract_entities_from_sentence(types, sentence) ==
    LET keep == SelectSeq(sentence, LAMBDA ent : ent.label_ \in types)
    IN  [k \in DOMAIN keep |-> keep[k].text]

\* EntityExtractor.get_unique_entities
get_unique_entities(types, sentence) ==
    Range(extract_entities_from_sentence(types, sentence))


\* Mutant of fn_extract_entities_from_sentence: every label is kept
fn_extract_every_label(sentence) ==
    [k \in DOMAIN sentence |-> sentence[k].text]

\* entity_extractor.extract_entities_from_sentence (function-style variant)
fn_extract_entities_from_sentence(sentence) ==
    LET keep == SelectSeq(sentence, LAMBDA ent : ent.label_ = "PERSON")
    IN  [k \in DOMAIN keep |-> keep[k].text]

\* entity_extractor.get_unique_entities (function-style variant)
fn_get_unique_entities(sentence) ==
    Range(fn_extract_entities_from_sentence(sentence))

\* ------------------------------------------------------------------ sentiment score
\* A label is the sequence of its characters.
UpperChars ==
    <<"A", "B", "C", "D", "E", "F", "G", "H", "I", "J", "K", "L", "M",
      "N", "O", "P", "Q", "R", "S", "T", "U", "V", "W", "X", "Y", "Z">>

LowerChars ==
    <<"a", "b", "c", "d", "e", "f", "g", "h", "i", "j", "k", "l", "m",
      "n", "o", "p", "q", "r", "s", "t", "u", "v", "w", "x", "y", "z">>

\* str.lower(), one character
LowerChar(c) ==
    IF \E k \in DOMAIN UpperChars : UpperChars[k] = c
    THEN LowerChars[CHOOSE k \in DOMAIN UpperChars : UpperChars[k] = c]
    ELSE c

\* Mutant of Lower: the label is compared in the case it came in
SameCase(label) == label

\* str.lower()
Lower(label) == [k \in DOMAIN label |-> LowerChar(label[k])]

\* word in label (substring test)
Contains(label, word) ==
    \E off \in 0..(Len(label) - Len(word)) :
        \A k \in 1..Len(word) : label[off + k] = word[k]

positive_labels == <<
    <<"p", "o", "s", "i", "t", "i", "v", "e">>,
    <<"j", "o", "y">>,
    <<"l", "o", "v", "e">>,
    <<"o", "p", "t", "i", "m", "i", "s", "m">>,
    <<"a", "d", "m", "i", "r", "a", "t", "i", "o", "n">>,
    <<"a", "p", "p", "r", "o", "v", "a", "l">>,
    <<"c", "a", "r", "i", "n", "g">>
>>

negative_labels == <<
    <<"n", "e", "g", "a", "t", "i", "v", "e">>,
    <<"a", "n", "g", "e", "r">>,
    <<"s", "a", "d", "n", "e", "s", "s">>,
    <<"f", "e", "a", "r">>,
    <<"d", "i", "s", "g", "u", "s", "t">>,
    <<"d", "i", "s", "a", "p", "p", "r", "o", "v", "a", "l">>,
    <<"a", "n", "n", "o", "y", "a", "n", "c", "e">>
>>

neutral_labels == <<
    <<"n", "e", "u", "t", "r", "a", "l">>,
    <<"s", "u", "r", "p", "r", "i", "s", "e">>,
    <<"c", "u", "r", "i", "o", "s", "i", "t", "y">>,
    <<"c", "o", "n", "f", "u", "s", "i", "o", "n">>,
    <<"r", "e", "a", "l", "i", "z", "a", "t", "i", "o", "n">>
>>

\* GraphBuilder._convert_sentiment_to_score
convert_sentiment_to_score(sentiment_result) ==
    LET label == Lower(sentiment_result.label)
        confidence == sentiment_result.confidence
    IN  IF \E k \in DOMAIN positive_labels : Contains(label, positive_labels[k])
        THEN confidence
        ELSE IF \E k \in DOMAIN negative_labels : Contains(label, negative_labels[k])
        THEN -confidence
        ELSE 0

\* The labels _convert_sentiment_to_score is given in SpecScore: the words of its
\* three lists, in lower case, in upper case and capitalised
UpperChar(c) ==
    IF \E k \in DOMAIN LowerChars : LowerChars[k] = c
    THEN UpperChars[CHOOSE k \in DOMAIN LowerChars : LowerChars[k] = c]
    ELSE c

Upper(label) == [k \in DOMAIN label |-> UpperChar(label[k])]

Capitalised(label) == [k \in DOMAIN label |-> IF k = 1 THEN UpperChar(label[k]) ELSE label[k]]

CasesOf(words) == UNION {{w, Upper(w), Capitalised(w)} : w \in words}

ScoreLabels ==
    CasesOf(Range(positive_labels) \cup Range(negative_labels) \cup Range(neutral_labels))

\* Confidences of a SentimentResult: the two ends of [0, 1] and the classifier's
ScoreConfidences == {0, 35, 5000, 10000}

SentimentResults == [label : ScoreLabels, confidence : ScoreConfidences]

\* What one call of sentiment_analyzer.analyze(sentence.text) can do: raise, or
\* return a SentimentResult with one of the model's labels and a confidence.
ClassifierLabels == {<<"j", "o", "y">>, <<"a", "n", "g", "e", "r">>}
Confidences == {5000, 35}
ClassifierOutcomes ==
    {[raised |-> TRUE, label |-> <<>>, confidence |-> 0]} \cup
    [raised : {FALSE}, label : ClassifierLabels, confidence : Confidences]

\* Mutant of SentenceSentiment: the sentence is scored whether sentiment is
\* enabled or not
SentenceSentimentAlways(sentiment_on, outcome) ==
    IF outcome.raised THEN Some(0)
    ELSE Some(convert_sentiment_to_score(outcome))

\* Mutant of SentenceSentiment: an exception leaves the sentence without a score
SentenceSentimentNoFallback(sentiment_on, outcome) ==
    IF ~sentiment_on \/ outcome.raised THEN None
    ELSE Some(convert_sentiment_to_score(outcome))

\* Lines 112-120: sentence_sentiment of a sentence with at least 2 entities.
SentenceSentiment(sentiment_on, outcome) ==
    IF ~sentiment_on THEN None
    ELSE IF outcome.raised THEN Some(0)
    ELSE Some(convert_sentiment_to_score(outcome))

\* round(sum(sentiments) / len(sentiments), 3), in ten-thousandths: the
\* multiples of 10 nearest to total / n.  When total / n lies exactly half way
\* the binary value of the quotient decides, so both neighbours are possible.
RoundedMeans(total, n) ==
    LET k0 == total \div (10 * n)
        rem == total - k0 * 10 * n
    IN  IF 2 * rem < 10 * n THEN {10 * k0}
        ELSE IF 2 * rem > 10 * n THEN {10 * (k0 + 1)}
        ELSE {10 * k0, 10 * (k0 + 1)}


\* ------------------------------------------------------------------ SentimentAnalyzer
\* What the loaded model makes of one text, the score in hundred-thousandths:
\* a function of the text, a different answer for each text.
ModelOutput(txt) ==
    [label |-> IF txt % 2 = 1 THEN <<"j", "o", "y">> ELSE <<"a", "n", "g", "e", "r">>,
     score |-> 99999 - 11113 * txt]

\* self._pipeline(batch): one result per text, in the order of the texts; a
\* result is a dict or, when nested, a list of dicts with the top prediction first
Pipeline(batch, nested) ==
    [k \in DOMAIN batch |->
        IF nested
        THEN [is_list |-> TRUE,
              value |-> <<ModelOutput(batch[k]),
                          [label |-> <<"n", "e", "u", "t", "r", "a", "l">>, score |-> 1]>>]
        ELSE [is_list |-> FALSE, value |-> ModelOutput(batch[k])]]

\* round(x, 4) of a number of hundred-thousandths, in ten-thousandths
Round4(x) == (x + 5) \div 10

\* zip(batch, batch_results)
Zip(xs, ys) ==
    [k \in 1..(IF Len(xs) <= Len(ys) THEN Len(xs) ELSE Len(ys)) |-> <<xs[k], ys[k]>>]

\* Lines 127-157: the SentimentResult of one text of the batch; full holds when
\* the model's class probabilities were read, which takes the tokenizer
MakeResult(txt, result, full) ==
    LET top == IF result.is_list THEN result.value[1] ELSE result.value
    IN  [text |-> txt,
         label |-> top.label,
         confidence |-> Round4(top.score),
         scores |-> IF full THEN "probabilities" ELSE "top"]

\* Mutant of Batch: the slice runs one text too far
BatchOverlapping(texts, start, size) ==
    SubSeq(texts, start + 1,
           IF start + size + 1 <= Len(texts) THEN start + size + 1 ELSE Len(texts))

\* texts[i:i + self.batch_size]
Batch(texts, start, size) ==
    SubSeq(texts, start + 1, IF start + size <= Len(texts) THEN start + size ELSE Len(texts))

\* texts = [text] if is_single else text
TextsOf(arg) == IF arg.is_str THEN <<arg.value>> ELSE arg.value

\* ------------------------------------------------------------------ networkx.Graph
\* A graph is its node table (node -> attribute dict) and its edge table
\* (unordered pair {u, v} -> attribute dict; {u} is a self-loop).
EmptyGraph == [node |-> EmptyDict, adj |-> EmptyDict]

\* dict.update
DictUpdate(d, e) ==
    [k \in (DOMAIN d) \cup (DOMAIN e) |-> IF k \in DOMAIN e THEN e[k] ELSE d[k]]

\* G.add_node(n, **attrs)
add_node(graph, n, attrs) ==
    [graph EXCEPT !.node =
        IF n \in DOMAIN graph.node
        THEN [graph.node EXCEPT ![n] = DictUpdate(@, attrs)]
        ELSE graph.node @@ (n :> attrs)]

\* G.add_edge(u, v, **attrs): creates the nodes it misses, updates the edge's dict
add_edge(graph, u, v, attrs) ==
    LET withU == add_node(graph, u, EmptyDict)
        withUV == add_node(withU, v, EmptyDict)
        e == {u, v}
    IN  [withUV EXCEPT !.adj =
            IF e \in DOMAIN withUV.adj
            THEN [withUV.adj EXCEPT ![e] = DictUpdate(@, attrs)]
            ELSE withUV.adj @@ (e :> attrs)]

\* G.degree(n): a self-loop counts twice
degree(graph, n) ==
    Cardinality({e \in DOMAIN graph.adj : n \in e})
    + (IF {n} \in DOMAIN graph.adj THEN 1 ELSE 0)

\* ------------------------------------------------------------------ the two passes
\* Lines 48-49 of get_major_entities: for entity in unique_entities:
\* entity_counts[entity] += 1
RECURSIVE CountEntities(_, _)
CountEntities(counts, unique_entities) ==
    IF unique_entities = {} THEN counts
    ELSE LET entity == CHOOSE e \in unique_entities : TRUE
         IN  CountEntities(CounterInc(counts, entity), unique_entities \ {entity})

\* Mutant of CountSentenceEntities: counts every mention of the list, not
\* every member of the set
RECURSIVE CountMentions(_, _)
CountMentions(counts, entities) ==
    IF entities = <<>> THEN counts
    ELSE CountMentions(CounterInc(counts, Head(entities)), Tail(entities))

CountSentenceEntitiesRaw(counts, types, sentence) ==
    CountMentions(counts, extract_entities_from_sentence(types, sentence))

\* Lines 47-49 of get_major_entities, one sentence
CountSentenceEntities(counts, types, sentence) ==
    CountEntities(counts, get_unique_entities(types, sentence))

\* Lines 13-15 of the function-style get_major_entities, one sentence
FnCountSentenceEntities(counts, sentence) ==
    CountEntities(counts, fn_get_unique_entities(sentence))

\* Mutant of IsMajor: the comparison the wrong way round
IsMajorUpTo(count, threshold) == count <= threshold

\* Mutant of IsMajor: an exclusive threshold
IsMajorStrict(count, threshold) == count > threshold

\* count >= min_mentions
IsMajor(count, threshold) == count >= threshold

\* Line 52: {entity for entity, count in entity_counts.items() if count >= min_mentions}
MajorEntities(counts, threshold) ==
    {e \in DOMAIN counts : IsMajor(counts[e], threshold)}

\* Mutant of combinations: combinations_with_replacement, which also pairs an
\* entity with itself
CombinationsWithSelf(order) ==
    LET n == Len(order)
        idx == {<<a, b>> \in (1..n) \X (1..n) : a <= b}
        before(p) == Cardinality({q \in idx : q[1] < p[1] \/ (q[1] = p[1] /\ q[2] < p[2])})
    IN  [k \in 1..Cardinality(idx) |->
            LET p == CHOOSE p \in idx : before(p) = k - 1
            IN  <<order[p[1]], order[p[2]]>>]

\* Mutant of combinations: only neighbours in the iteration order are paired
AdjacentPairs(order) ==
    [k \in 1..(Len(order) - 1) |-> <<order[k], order[k + 1]>>]

\* itertools.combinations(unique_entities, 2), the set iterated in this order
combinations(order) ==
    LET n == Len(order)
        \* position of pair (a, b), a < b, in the output
        pos(a, b) == (a - 1) * n - ((a - 1) * a) \div 2 + (b - a)
    IN  [k \in 1..((n * (n - 1)) \div 2) |->
            LET a == CHOOSE a \in 1..n : \E b \in (a + 1)..n : pos(a, b) = k
                b == CHOOSE b \in (a + 1)..n : pos(a, b) = k
            IN  <<order[a], order[b]>>]

\* Mutant of SortedPair: the pair is used as a key in the order it was produced
UnsortedPair(entity_1, entity_2) == <<entity_1, entity_2>>

\* tuple(sorted([entity_1, entity_2]))
SortedPair(entity_1, entity_2) ==
    IF entity_1 <= entity_2 THEN <<entity_1, entity_2>> ELSE <<entity_2, entity_1>>

\* sentiment_data[pair].append(x) on a defaultdict(list)
ListAppend(d, k, x) ==
    IF k \in DOMAIN d THEN [d EXCEPT ![k] = Append(@, x)] ELSE d @@ (k :> <<x>>)

\* Mutant of PairStep: a connection is counted only between two major entities
PairStepMajorOnly(acc, pair, major, sentence_sentiment) ==
    LET entity_1 == pair[1]
        entity_2 == pair[2]
    IN  IF entity_1 \in major /\ entity_2 \in major
        THEN LET key == SortedPair(entity_1, entity_2)
             IN  [fc |-> CounterInc(CounterInc(acc.fc, entity_1), entity_2),
                  mm |-> CounterInc(acc.mm, key),
                  sd |-> IF sentence_sentiment # None
                         THEN ListAppend(acc.sd, key, sentence_sentiment[1])
                         ELSE acc.sd]
        ELSE acc

\* Mutant of PairStep: only the first entity of a pair gets its connection counted
PairStepOneSided(acc, pair, major, sentence_sentiment) ==
    LET entity_1 == pair[1]
        entity_2 == pair[2]
        fc == CounterInc(acc.fc, entity_1)
    IN  IF entity_1 \in major /\ entity_2 \in major
        THEN LET key == SortedPair(entity_1, entity_2)
             IN  [fc |-> fc,
                  mm |-> CounterInc(acc.mm, key),
                  sd |-> IF sentence_sentiment # None
                         THEN ListAppend(acc.sd, key, sentence_sentiment[1])
                         ELSE acc.sd]
        ELSE [fc |-> fc, mm |-> acc.mm, sd |-> acc.sd]

\* Mutant of PairStep: an edge is recorded as soon as one of the two is major
PairStepEitherMajor(acc, pair, major, sentence_sentiment) ==
    LET entity_1 == pair[1]
        entity_2 == pair[2]
        fc == CounterInc(CounterInc(acc.fc, entity_1), entity_2)
    IN  IF entity_1 \in major \/ entity_2 \in major
        THEN LET key == SortedPair(entity_1, entity_2)
             IN  [fc |-> fc,
                  mm |-> CounterInc(acc.mm, key),
                  sd |-> IF sentence_sentiment # None
                         THEN ListAppend(acc.sd, key, sentence_sentiment[1])
                         ELSE acc.sd]
        ELSE [fc |-> fc, mm |-> acc.mm, sd |-> acc.sd]

\* Mutant of PairStep: the sample is tested for truth, not against None, and a
\* score of 0.0 is dropped
PairStepTruthy(acc, pair, major, sentence_sentiment) ==
    LET entity_1 == pair[1]
        entity_2 == pair[2]
        fc == CounterInc(CounterInc(acc.fc, entity_1), entity_2)
    IN  IF entity_1 \in major /\ entity_2 \in major
        THEN LET key == SortedPair(entity_1, entity_2)
             IN  [fc |-> fc,
                  mm |-> CounterInc(acc.mm, key),
                  sd |-> IF sentence_sentiment # None /\ sentence_sentiment[1] # 0
                         THEN ListAppend(acc.sd, key, sentence_sentiment[1])
                         ELSE acc.sd]
        ELSE [fc |-> fc, mm |-> acc.mm, sd |-> acc.sd]

\* Mutant of PairStep: every pair is recorded, whether its members are major or not
PairStepUnfiltered(acc, pair, major, sentence_sentiment) ==
    LET entity_1 == pair[1]
        entity_2 == pair[2]
        key == SortedPair(entity_1, entity_2)
    IN  [fc |-> CounterInc(CounterInc(acc.fc, entity_1), entity_2),
         mm |-> CounterInc(acc.mm, key),
         sd |-> IF sentence_sentiment # None
                THEN ListAppend(acc.sd, key, sentence_sentiment[1])
                ELSE acc.sd]

\* Lines 122-134, one pair of the sentence
PairStep(acc, pair, major, sentence_sentiment) ==
    LET entity_1 == pair[1]
        entity_2 == pair[2]
        fc == CounterInc(CounterInc(acc.fc, entity_1), entity_2)
    IN  IF entity_1 \in major /\ entity_2 \in major
        THEN LET key == SortedPair(entity_1, entity_2)
             IN  [fc |-> fc,
                  mm |-> CounterInc(acc.mm, key),
                  sd |-> IF sentence_sentiment # None
                         THEN ListAppend(acc.sd, key, sentence_sentiment[1])
                         ELSE acc.sd]
        ELSE [fc |-> fc, mm |-> acc.mm, sd |-> acc.sd]

\* Lines 122-134, the loop over the pairs of one sentence
RECURSIVE PairLoop(_, _, _, _)
PairLoop(acc, pairs, major, sentence_sentiment) ==
    IF pairs = <<>> THEN acc
    ELSE PairLoop(PairStep(acc, Head(pairs), major, sentence_sentiment),
                  Tail(pairs), major, sentence_sentiment)

\* Lines 140-141: one node per major entity, with its full-connection count
RECURSIVE AddNodes(_, _, _)
AddNodes(graph, major, fc) ==
    IF major = {} THEN graph
    ELSE LET entity == CHOOSE e \in major : TRUE
         IN  AddNodes(add_node(graph, entity, ("full_connections" :> CounterGet(fc, entity))),
                      major \ {entity}, fc)

\* Mutant of EdgeAttrs: the edge is added without its count, weight 1
EdgeAttrsUnitWeight(key, weight, sentiment_on, sd, tie) ==
    IF sentiment_on /\ key \in DOMAIN sd
    THEN IF sd[key] # <<>>
         THEN LET means == RoundedMeans(SumSeq(sd[key]), Len(sd[key]))
                  avg == IF tie THEN CHOOSE m \in means : \A o \in means : o <= m
                         ELSE CHOOSE m \in means : \A o \in means : m <= o
              IN  [weight |-> 1, sentiment |-> avg, sentiment_count |-> Len(sd[key])]
         ELSE [weight |-> 1, sentiment |-> 0, sentiment_count |-> 0]
    ELSE [weight |-> 1]

\* Mutant of EdgeAttrs: the sum of the samples is not divided by their number
EdgeAttrsTotal(key, weight, sentiment_on, sd, tie) ==
    IF sentiment_on /\ key \in DOMAIN sd
    THEN IF sd[key] # <<>>
         THEN LET means == RoundedMeans(SumSeq(sd[key]), 1)
                  avg == IF tie THEN CHOOSE m \in means : \A o \in means : o <= m
                         ELSE CHOOSE m \in means : \A o \in means : m <= o
              IN  [weight |-> weight, sentiment |-> avg, sentiment_count |-> Len(sd[key])]
         ELSE [weight |-> weight, sentiment |-> 0, sentiment_count |-> 0]
    ELSE [weight |-> weight]

\* Lines 145-156: the attributes of one edge; a mean that lies half way (see
\* RoundedMeans) is rounded up when tie holds, down otherwise
EdgeAttrs(key, weight, sentiment_on, sd, tie) ==
    IF sentiment_on /\ key \in DOMAIN sd
    THEN IF sd[key] # <<>>
         THEN LET means == RoundedMeans(SumSeq(sd[key]), Len(sd[key]))
                  avg == IF tie THEN CHOOSE m \in means : \A o \in means : o <= m
                         ELSE CHOOSE m \in means : \A o \in means : m <= o
              IN  [weight |-> weight, sentiment |-> avg, sentiment_count |-> Len(sd[key])]
         ELSE [weight |-> weight, sentiment |-> 0, sentiment_count |-> 0]
    ELSE [weight |-> weight]

\* Lines 144-158: one edge per key of major_to_major_connections, in dict
\* order; up holds the keys whose half-way mean is rounded up
RECURSIVE AddEdges(_, _, _, _, _, _)
AddEdges(graph, keys, mm, sentiment_on, sd, up) ==
    IF keys = <<>> THEN graph
    ELSE LET key == Head(keys)
         IN  AddEdges(add_edge(graph, key[1], key[2],
                               EdgeAttrs(key, mm[key], sentiment_on, sd, key \in up)),
                      Tail(keys), mm, sentiment_on, sd, up)

\* The keys whose mean lies half way between two roundings
TieKeys(sd) ==
    {key \in DOMAIN sd :
        sd[key] # <<>> /\ Cardinality(RoundedMeans(SumSeq(sd[key]), Len(sd[key]))) = 2}

\* What the float sum(sentiments) / len(sentiments) depends on: the number of
\* samples, and the samples in the order they are added; in floating point
\* adding 0.0 changes nothing and a + b = b + a, so that the zeros and the
\* order of the first two other samples do not count
SumOrder(samples) ==
    LET terms == SelectSeq(samples, LAMBDA x : x # 0)
        added == IF Len(terms) >= 2 /\ terms[1] > terms[2]
                 THEN <<terms[2], terms[1]>> \o SubSeq(terms, 3, Len(terms))
                 ELSE terms
    IN  [n |-> Len(samples), terms |-> added]

\* round() is a function: the rounding up of the keys must agree with what
\* round() made of the same sum before, memo, and two keys with the same sum
\* are rounded alike
RoundingAgrees(sd, up, memo) ==
    \A key \in TieKeys(sd) :
        LET sum == SumOrder(sd[key])
        IN  /\ sum \in DOMAIN memo => ((key \in up) <=> memo[sum])
            /\ \A other \in TieKeys(sd) :
                  SumOrder(sd[other]) = sum => ((key \in up) <=> (other \in up))

\* memo, with the roundings of this call added
Rounded(sd, up, memo) ==
    LET sums == {SumOrder(sd[key]) : key \in TieKeys(sd)}
    IN  [sum \in (DOMAIN memo) \cup sums |->
            IF sum \in DOMAIN memo THEN memo[sum]
            ELSE \E key \in up : SumOrder(sd[key]) = sum]

\* The orders in which the loop of lines 144-158 can meet the keys.  A dict
\* yields its keys in the order of their first insertion, which follows the
\* iteration orders of the sentences' sets.  While no two keys name the same
\* two entities the graph that results is the same for every order, and one
\* order stands for all.
KeyOrders(keys) ==
    IF \A k1, k2 \in keys : k1 # k2 => {k1[1], k1[2]} # {k2[1], k2[2]}
    THEN {CHOOSE o \in IterationOrders(keys) : TRUE}
    ELSE IterationOrders(keys)

\* ------------------------------------------------------------------ inputs
\* A sentence lists its mentions in one fixed order (by name, then label):
\* both extractors pass the list to set(), which forgets the order.
MentionRank(m) == 2 * m.text + (IF m.label_ = "PERSON" THEN 0 ELSE 1)

SentencePool ==
    {s \in SeqsUpTo(Mentions, MaxMentions) :
        \A k \in 1..(Len(s) - 1) : MentionRank(s[k]) <= MentionRank(s[k + 1])}

Documents == SeqsUpTo(SentencePool, MaxSentences)

\* Documents of one sentence with more names in it
WideMentions == [text : 1..NumWideEntities, label_ : {"PERSON"}]

WideDocuments ==
    {<<s>> : s \in {s \in SeqsUpTo(WideMentions, MaxWideMentions) :
        \A k \in 1..(Len(s) - 1) : MentionRank(s[k]) <= MentionRank(s[k + 1])}}

\* Documents of up to MaxAgainSentences sentences, each name at most once in a
\* sentence
AgainMentions == [text : 1..NumAgainEntities, label_ : {"PERSON"}]

AgainDocuments ==
    SeqsUpTo({s \in SeqsUpTo(AgainMentions, NumAgainEntities) :
                 \A k \in 1..(Len(s) - 1) : MentionRank(s[k]) < MentionRank(s[k + 1])},
             MaxAgainSentences)

\* Documents made of the three sentences of the scenario "Alice and Bob; Alice;
\* Alice, Bob and Carol" (Alice, Bob, Carol are 1, 2, 3), in any order and number
Person(name) == [text |-> name, label_ |-> "PERSON"]

ScenarioSentences ==
    {<<Person(1), Person(2)>>, <<Person(1)>>, <<Person(1), Person(2), Person(3)>>}

ScenarioDocuments == SeqsUpTo(ScenarioSentences, MaxScenarioSentences)

Thresholds == 0..MaxThreshold

\* The texts given to analyze: 0 is a text that is empty or white space only,
\* the others are not blank
Texts == 0..NumTexts

\* text: Union[str, List[str]]
AnalyzeArguments ==
    [is_str : {TRUE}, value : Texts] \cup
    [is_str : {FALSE}, value : SeqsUpTo(Texts, MaxTexts)]

BatchSizes == (1..MaxBatchSize) \cup {DefaultBatchSize}

\* Sentences whose mentions carry any of two labels, and what can be passed as
\* entity_types: nothing, or a list of labels (the empty one too)
Labels == {"PERSON", "ORG"}

LabelledSentences == SeqsUpTo([text : Entities, label_ : Labels], MaxMentions)

ExtractorArguments == {None} \cup {Some(L) : L \in SUBSET Labels}

\* ------------------------------------------------------------------ state
VARIABLES
    variant,                     \* the call under way: "GraphBuilder" and "function" are
                                 \* the two build_graph_from_sentences, "statistics" is
                                 \* GraphBuilder.get_entity_statistics, "convert" is
                                 \* GraphBuilder._convert_sentiment_to_score,
                                 \* "extract" and "fn_extract" are the two
                                 \* get_unique_entities, "analyze" is
                                 \* SentimentAnalyzer.analyze
    entity_types,                \* entity_extractor.entity_types
    use_sentiment,               \* self.use_sentiment
    sentences,                   \* argument: the sentence spans
    min_mentions,                \* argument
    pc,                          \* "count", "pairs", "edges", "done"; "call", "done" for
                                 \* "convert" and the extractors; for "analyze": "call",
                                 \* "texts", "batch", "returned", and the exception raised
    i,                           \* index of the next sentence of the running loop; the
                                 \* offset of the next batch in analyze
    entity_counts,               \* Counter of get_major_entities
    major_entities,
    full_connections,            \* Counter
    major_to_major_connections,  \* Counter keyed by tuples
    sentiment_data,              \* defaultdict(list) keyed by tuples
    pairs,                       \* the pair list of the last sentence that had one
    analyzed,                    \* the calls of sentiment_analyzer.analyze of this call
    G,                           \* the networkx graph
    origin,                      \* origin[k]: the place the k-th sentence had in the
                                 \* sequence given to the first call
    returned,                    \* the calls that have returned, oldest first
    rounded,                     \* what round() made of the half-way means met so far
    sentiment_result,            \* argument of _convert_sentiment_to_score; return
                                 \* value of SentimentAnalyzer.analyze
    score,                       \* return value of _convert_sentiment_to_score
    entity_types_arg,            \* argument of EntityExtractor.__init__
    entity_set,             \* return value of get_unique_entities
    _pipeline,                   \* SentimentAnalyzer._pipeline
    _tokenizer,                  \* SentimentAnalyzer._tokenizer
    batch_size,                  \* SentimentAnalyzer.batch_size
    text,                        \* argument of SentimentAnalyzer.analyze
    results                      \* the list analyze builds

vars ==
    <<variant, entity_types, use_sentiment, sentences, min_mentions, pc, i,
      entity_counts, major_entities, full_connections,
      major_to_major_connections, sentiment_data, pairs, analyzed, G,
      origin, returned, rounded, sentiment_result, score,
      entity_types_arg, entity_set, _pipeline, _tokenizer, batch_size, text,
      results>>

inputs == <<variant, entity_types, use_sentiment, sentences, min_mentions, origin>>

\* The extractor called on its own, and the analyzer
extractor == <<entity_types_arg, entity_set>>

analyzer == <<_pipeline, _tokenizer, batch_size, text, results>>

\* The locals of a build
locals ==
    <<entity_counts, major_entities, full_connections, major_to_major_connections,
      sentiment_data, pairs, analyzed, G>>

\* What no step of a running build touches, the rounding apart
outside == <<returned, rounded, sentiment_result, score, extractor, analyzer>>

\* EntityExtractor() as the builders make it (entity_types left to its default),
\* no call of get_unique_entities on its own
DefaultExtractor ==
    /\ entity_types_arg = None
    /\ entity_set = None

\* SentimentAnalyzer.__init__ (lines 69-76), no call of analyze on its own
NewAnalyzer ==
    /\ _pipeline = None
    /\ _tokenizer = None
    /\ batch_size = DefaultBatchSize
    /\ text = None
    /\ results = <<>>

\* The state when the call starts, the document drawn from docs
InitWith(docs) ==
    /\ variant \in {"GraphBuilder", "function", "statistics"}
    /\ entity_types = EntityExtractorInit(None)
    /\ use_sentiment \in (IF variant = "GraphBuilder" THEN BOOLEAN ELSE {FALSE})
    /\ sentences \in docs
    /\ min_mentions \in (IF variant = "statistics" THEN {0} ELSE Thresholds)
    /\ pc = "count"
    /\ i = 1
    /\ entity_counts = EmptyDict
    /\ major_entities = {}
    /\ full_connections = EmptyDict
    /\ major_to_major_connections = EmptyDict
    /\ sentiment_data = EmptyDict
    /\ pairs = <<>>
    /\ analyzed = <<>>
    /\ G = EmptyGraph
    /\ origin = [k \in 1..Len(sentences) |-> k]
    /\ returned = <<>>
    /\ rounded = EmptyDict
    /\ sentiment_result = None
    /\ score = None
    /\ DefaultExtractor
    /\ NewAnalyzer

Init == InitWith(Documents)

\* A new SentimentAnalyzer and its first call of analyze
InitAnalyze ==
    /\ variant = "analyze"
    /\ _pipeline = None
    /\ _tokenizer = None
    /\ batch_size \in BatchSizes
    /\ text \in AnalyzeArguments
    /\ results = <<>>
    /\ pc = "call"
    /\ i = 0
    /\ entity_types = EntityExtractorInit(None)
    /\ use_sentiment = TRUE
    /\ sentences = <<>>
    /\ min_mentions = 0
    /\ entity_counts = EmptyDict
    /\ major_entities = {}
    /\ full_connections = EmptyDict
    /\ major_to_major_connections = EmptyDict
    /\ sentiment_data = EmptyDict
    /\ pairs = <<>>
    /\ analyzed = <<>>
    /\ G = EmptyGraph
    /\ origin = <<>>
    /\ returned = <<>>
    /\ rounded = EmptyDict
    /\ sentiment_result = None
    /\ score = None
    /\ DefaultExtractor

\* One call of get_unique_entities on its own, of an EntityExtractor made with
\* any argument ("extract") or of the function-style module ("fn_extract")
InitExtract ==
    /\ variant \in {"extract", "fn_extract"}
    /\ entity_types_arg \in (IF variant = "extract" THEN ExtractorArguments ELSE {None})
    /\ entity_types = EntityExtractorInit(entity_types_arg)
    /\ entity_set = None
    /\ use_sentiment = FALSE
    /\ sentences \in {<<s>> : s \in LabelledSentences}
    /\ min_mentions = 0
    /\ pc = "call"
    /\ i = 1
    /\ entity_counts = EmptyDict
    /\ major_entities = {}
    /\ full_connections = EmptyDict
    /\ major_to_major_connections = EmptyDict
    /\ sentiment_data = EmptyDict
    /\ pairs = <<>>
    /\ analyzed = <<>>
    /\ G = EmptyGraph
    /\ origin = <<1>>
    /\ returned = <<>>
    /\ rounded = EmptyDict
    /\ sentiment_result = None
    /\ score = None
    /\ NewAnalyzer

InitWide == InitWith(WideDocuments)

InitAgain == InitWith(AgainDocuments)

InitScenario == InitWith(ScenarioDocuments)

\* One call of _convert_sentiment_to_score on its own
InitScore ==
    /\ variant = "convert"
    /\ entity_types = EntityExtractorInit(None)
    /\ use_sentiment = TRUE
    /\ sentences = <<>>
    /\ min_mentions = 0
    /\ pc = "call"
    /\ i = 1
    /\ entity_counts = EmptyDict
    /\ major_entities = {}
    /\ full_connections = EmptyDict
    /\ major_to_major_connections = EmptyDict
    /\ sentiment_data = EmptyDict
    /\ pairs = <<>>
    /\ analyzed = <<>>
    /\ G = EmptyGraph
    /\ origin = <<>>
    /\ returned = <<>>
    /\ rounded = EmptyDict
    /\ sentiment_result \in SentimentResults
    /\ score = None
    /\ DefaultExtractor
    /\ NewAnalyzer

\* ------------------------------------------------------------------ GraphBuilder
\* What sentiment_analyzer.analyze can do with the text of sentence k.  The
\* classifier is a function of the text: a sentence that a call before this one
\* had analysed gets the same result again.
Analyses(k) ==
    LET earlier ==
            UNION {{e.outcome : e \in {e \in Range(r.analyzed) :
                                          r.origin[e.sentence] = origin[k]}} :
                   r \in Range(returned)}
    IN  IF earlier # {} THEN earlier ELSE ClassifierOutcomes


\* Mutant of CountSentence: the pairs of the sentence are counted while the
\* mentions are
CountSentenceAndPairs ==
    /\ variant = "GraphBuilder"
    /\ pc = "count"
    /\ i <= Len(sentences)
    /\ entity_counts' = CountSentenceEntities(entity_counts, entity_types, sentences[i])
    /\ LET unique_entities == get_unique_entities(entity_types, sentences[i])
       IN  IF Cardinality(unique_entities) >= 2
           THEN \E order \in IterationOrders(unique_entities) :
                    full_connections' =
                        PairLoop([fc |-> full_connections,
                                  mm |-> major_to_major_connections,
                                  sd |-> sentiment_data],
                                 combinations(order),
                                 MajorEntities(entity_counts', min_mentions), None).fc
           ELSE UNCHANGED full_connections
    /\ i' = i + 1
    /\ UNCHANGED <<inputs, outside, pc, major_entities,
                   major_to_major_connections, sentiment_data, pairs, analyzed, G>>

\* get_major_entities, loop body (lines 46-49)
CountSentence ==
    /\ variant = "GraphBuilder"
    /\ pc = "count"
    /\ i <= Len(sentences)
    /\ entity_counts' = CountSentenceEntities(entity_counts, entity_types, sentences[i])
    /\ i' = i + 1
    /\ UNCHANGED <<inputs, outside, pc, major_entities, full_connections,
                   major_to_major_connections, sentiment_data, pairs, analyzed, G>>

\* get_major_entities returns (line 52); build_graph_from_sentences creates its
\* counters (lines 92-99)
FilterMajor ==
    /\ variant = "GraphBuilder"
    /\ pc = "count"
    /\ i > Len(sentences)
    /\ major_entities' = MajorEntities(entity_counts, min_mentions)
    /\ full_connections' = EmptyDict
    /\ major_to_major_connections' = EmptyDict
    /\ sentiment_data' = EmptyDict
    /\ pc' = "pairs"
    /\ i' = 1
    /\ UNCHANGED <<inputs, outside, entity_counts, pairs, analyzed, G>>

\* Mutant of PairSentence: one pass, a pair is classified by the mention counts
\* of the sentences read so far
RECURSIVE CountPrefix(_, _, _)
CountPrefix(counts, types, sents) ==
    IF sents = <<>> THEN counts
    ELSE CountPrefix(CountSentenceEntities(counts, types, Head(sents)), types, Tail(sents))

PairSentenceSinglePass ==
    /\ variant = "GraphBuilder"
    /\ pc = "pairs"
    /\ i <= Len(sentences)
    /\ LET unique_entities == get_unique_entities(entity_types, sentences[i])
           running == MajorEntities(CountPrefix(EmptyDict, entity_types,
                                                SubSeq(sentences, 1, i)), min_mentions)
       IN  IF Cardinality(unique_entities) >= 2
           THEN \E order \in IterationOrders(unique_entities) :
                \E outcome \in (IF use_sentiment THEN Analyses(i)
                                ELSE {CHOOSE o \in ClassifierOutcomes : o.raised}) :
                    LET sentence_sentiment == SentenceSentiment(use_sentiment, outcome)
                        acc == PairLoop([fc |-> full_connections,
                                         mm |-> major_to_major_connections,
                                         sd |-> sentiment_data],
                                        combinations(order), running, sentence_sentiment)
                    IN  /\ pairs' = combinations(order)
                        /\ full_connections' = acc.fc
                        /\ major_to_major_connections' = acc.mm
                        /\ sentiment_data' = acc.sd
                        /\ analyzed' =
                              IF use_sentiment
                              THEN Append(analyzed, [sentence |-> i,
                                                     outcome |-> outcome,
                                                     score |-> sentence_sentiment])
                              ELSE analyzed
           ELSE UNCHANGED <<full_connections, major_to_major_connections,
                            sentiment_data, pairs, analyzed>>
    /\ i' = i + 1
    /\ UNCHANGED <<inputs, outside, pc, entity_counts, major_entities, G>>


\* Mutant of PairSentence: the classifier is called for every sentence, those
\* with fewer than two entities too
PairSentenceAnalysingAll ==
    /\ variant = "GraphBuilder"
    /\ pc = "pairs"
    /\ i <= Len(sentences)
    /\ LET unique_entities == get_unique_entities(entity_types, sentences[i])
       IN  \E outcome \in (IF use_sentiment THEN Analyses(i)
                           ELSE {CHOOSE o \in ClassifierOutcomes : o.raised}) :
               LET sentence_sentiment == SentenceSentiment(use_sentiment, outcome)
               IN  /\ analyzed' =
                          IF use_sentiment
                          THEN Append(analyzed, [sentence |-> i,
                                                 outcome |-> outcome,
                                                 score |-> sentence_sentiment])
                          ELSE analyzed
                   /\ IF Cardinality(unique_entities) >= 2
                      THEN \E order \in IterationOrders(unique_entities) :
                               LET acc == PairLoop([fc |-> full_connections,
                                                    mm |-> major_to_major_connections,
                                                    sd |-> sentiment_data],
                                                   combinations(order), major_entities,
                                                   sentence_sentiment)
                               IN  /\ pairs' = combinations(order)
                                   /\ full_connections' = acc.fc
                                   /\ major_to_major_connections' = acc.mm
                                   /\ sentiment_data' = acc.sd
                      ELSE UNCHANGED <<full_connections, major_to_major_connections,
                                       sentiment_data, pairs>>
    /\ i' = i + 1
    /\ UNCHANGED <<inputs, outside, pc, entity_counts, major_entities, G>>


\* Mutant of PairSentence: a sentence whose analysis raised is skipped
PairSentenceSkippingFailed ==
    /\ variant = "GraphBuilder"
    /\ pc = "pairs"
    /\ i <= Len(sentences)
    /\ LET unique_entities == get_unique_entities(entity_types, sentences[i])
       IN  IF Cardinality(unique_entities) >= 2
           THEN \E order \in IterationOrders(unique_entities) :
                \E outcome \in (IF use_sentiment THEN Analyses(i)
                                ELSE {CHOOSE o \in ClassifierOutcomes : o.raised}) :
                    LET sentence_sentiment == SentenceSentiment(use_sentiment, outcome)
                        acc == PairLoop([fc |-> full_connections,
                                         mm |-> major_to_major_connections,
                                         sd |-> sentiment_data],
                                        IF use_sentiment /\ outcome.raised THEN <<>>
                                        ELSE combinations(order),
                                        major_entities, sentence_sentiment)
                    IN  /\ pairs' = combinations(order)
                        /\ full_connections' = acc.fc
                        /\ major_to_major_connections' = acc.mm
                        /\ sentiment_data' = acc.sd
                        /\ analyzed' =
                              IF use_sentiment
                              THEN Append(analyzed, [sentence |-> i,
                                                     outcome |-> outcome,
                                                     score |-> sentence_sentiment])
                              ELSE analyzed
           ELSE UNCHANGED <<full_connections, major_to_major_connections,
                            sentiment_data, pairs, analyzed>>
    /\ i' = i + 1
    /\ UNCHANGED <<inputs, outside, pc, entity_counts, major_entities, G>>

\* build_graph_from_sentences, loop body (lines 104-134)
PairSentence ==
    /\ variant = "GraphBuilder"
    /\ pc = "pairs"
    /\ i <= Len(sentences)
    /\ LET unique_entities == get_unique_entities(entity_types, sentences[i])
       IN  IF Cardinality(unique_entities) >= 2
           THEN \E order \in IterationOrders(unique_entities) :
                \E outcome \in (IF use_sentiment THEN Analyses(i)
                                ELSE {CHOOSE o \in ClassifierOutcomes : o.raised}) :
                    LET sentence_sentiment == SentenceSentiment(use_sentiment, outcome)
                        acc == PairLoop([fc |-> full_connections,
                                         mm |-> major_to_major_connections,
                                         sd |-> sentiment_data],
                                        combinations(order), major_entities,
                                        sentence_sentiment)
                    IN  /\ pairs' = combinations(order)
                        /\ full_connections' = acc.fc
                        /\ major_to_major_connections' = acc.mm
                        /\ sentiment_data' = acc.sd
                        /\ analyzed' =
                              IF use_sentiment
                              THEN Append(analyzed, [sentence |-> i,
                                                     outcome |-> outcome,
                                                     score |-> sentence_sentiment])
                              ELSE analyzed
           ELSE UNCHANGED <<full_connections, major_to_major_connections,
                            sentiment_data, pairs, analyzed>>
    /\ i' = i + 1
    /\ UNCHANGED <<inputs, outside, pc, entity_counts, major_entities, G>>

\* G = nx.Graph() and the nodes (lines 137-141)
CreateNodes ==
    /\ variant = "GraphBuilder"
    /\ pc = "pairs"
    /\ i > Len(sentences)
    /\ G' = AddNodes(EmptyGraph, major_entities, full_connections)
    /\ pc' = "edges"
    /\ UNCHANGED <<inputs, outside, i, entity_counts, major_entities, full_connections,
                   major_to_major_connections, sentiment_data, pairs, analyzed>>

\* The edges (lines 144-158) and the return.  The dict yields its keys in the
\* order of their first insertion, which follows the iteration orders of the
\* sentences' sets: any order of the keys.
CreateEdges ==
    /\ variant = "GraphBuilder"
    /\ pc = "edges"
    /\ \E keys \in KeyOrders(DOMAIN major_to_major_connections) :
       \E up \in SUBSET TieKeys(sentiment_data) :
           /\ RoundingAgrees(sentiment_data, up, rounded)
           /\ G' = AddEdges(G, keys, major_to_major_connections, use_sentiment,
                            sentiment_data, up)
           /\ rounded' = Rounded(sentiment_data, up, rounded)
    /\ pc' = "done"
    /\ UNCHANGED <<inputs, returned, sentiment_result, score, extractor, analyzer, i,
                   entity_counts, major_entities, full_connections,
                   major_to_major_connections, sentiment_data, pairs, analyzed>>

\* ------------------------------------------------------------------ function-style variant
\* get_major_entities, loop body (src/src/graph_builder.py lines 12-15)
FnCountSentence ==
    /\ variant = "function"
    /\ pc = "count"
    /\ i <= Len(sentences)
    /\ entity_counts' = FnCountSentenceEntities(entity_counts, sentences[i])
    /\ i' = i + 1
    /\ UNCHANGED <<inputs, outside, pc, major_entities, full_connections,
                   major_to_major_connections, sentiment_data, pairs, analyzed, G>>

\* get_major_entities returns (line 18); the counters (lines 39-43)
FnFilterMajor ==
    /\ variant = "function"
    /\ pc = "count"
    /\ i > Len(sentences)
    /\ major_entities' = MajorEntities(entity_counts, min_mentions)
    /\ full_connections' = EmptyDict
    /\ major_to_major_connections' = EmptyDict
    /\ pc' = "pairs"
    /\ i' = 1
    /\ UNCHANGED <<inputs, outside, entity_counts, sentiment_data, pairs, analyzed, G>>

\* build_graph_from_sentences, loop body (lines 45-59)
FnPairSentence ==
    /\ variant = "function"
    /\ pc = "pairs"
    /\ i <= Len(sentences)
    /\ LET unique_entities == fn_get_unique_entities(sentences[i])
       IN  IF Cardinality(unique_entities) >= 2
           THEN \E order \in IterationOrders(unique_entities) :
                    LET acc == PairLoop([fc |-> full_connections,
                                         mm |-> major_to_major_connections,
                                         sd |-> EmptyDict],
                                        combinations(order), major_entities, None)
                    IN  /\ pairs' = combinations(order)
                        /\ full_connections' = acc.fc
                        /\ major_to_major_connections' = acc.mm
           ELSE UNCHANGED <<full_connections, major_to_major_connections, pairs>>
    /\ i' = i + 1
    /\ UNCHANGED <<inputs, outside, pc, entity_counts, major_entities, sentiment_data,
                   analyzed, G>>

\* G = nx.Graph() and the nodes (lines 61-65)
FnCreateNodes ==
    /\ variant = "function"
    /\ pc = "pairs"
    /\ i > Len(sentences)
    /\ G' = AddNodes(EmptyGraph, major_entities, full_connections)
    /\ pc' = "edges"
    /\ UNCHANGED <<inputs, outside, i, entity_counts, major_entities, full_connections,
                   major_to_major_connections, sentiment_data, pairs, analyzed>>

\* The edges (lines 68-69) and the return
FnCreateEdges ==
    /\ variant = "function"
    /\ pc = "edges"
    /\ \E keys \in KeyOrders(DOMAIN major_to_major_connections) :
           G' = AddEdges(G, keys, major_to_major_connections, FALSE, EmptyDict, {})
    /\ pc' = "done"
    /\ UNCHANGED <<inputs, outside, i, entity_counts, major_entities, full_connections,
                   major_to_major_connections, sentiment_data, pairs, analyzed>>

\* ------------------------------------------------------------------ get_entity_statistics
\* Loop body (src/src/graph/graph_builder.py lines 182-185)
StatisticsSentence ==
    /\ variant = "statistics"
    /\ pc = "count"
    /\ i <= Len(sentences)
    /\ entity_counts' = CountSentenceEntities(entity_counts, entity_types, sentences[i])
    /\ i' = i + 1
    /\ UNCHANGED <<inputs, outside, pc, major_entities, full_connections,
                   major_to_major_connections, sentiment_data, pairs, analyzed, G>>

\* return dict(entity_counts) (line 187)
StatisticsReturn ==
    /\ variant = "statistics"
    /\ pc = "count"
    /\ i > Len(sentences)
    /\ pc' = "done"
    /\ UNCHANGED <<inputs, outside, i, entity_counts, major_entities, full_connections,
                   major_to_major_connections, sentiment_data, pairs, analyzed, G>>

\* ------------------------------------------------------------------ _convert_sentiment_to_score
\* Lines 199-212
ConvertSentimentToScore ==
    /\ variant = "convert"
    /\ pc = "call"
    /\ score' = Some(convert_sentiment_to_score(sentiment_result))
    /\ pc' = "done"
    /\ UNCHANGED <<inputs, i, entity_counts, major_entities, full_connections,
                   major_to_major_connections, sentiment_data, pairs, analyzed, G,
                   returned, rounded, sentiment_result, extractor, analyzer>>

\* ------------------------------------------------------------------ a second call
\* build_graph_from_sentences returns G (line 168) and is called once more, on
\* the same GraphBuilder or on a fresh one with the same two constructor
\* arguments (the instance keeps nothing of a call), with the sentences in the
\* order given by order and the threshold m.  The locals of the call that
\* returned are gone; get_major_entities starts with counts_0 (line 44).
Recall(counts_0) ==
    /\ variant \in {"GraphBuilder", "function"}
    /\ pc = "done"
    /\ Len(returned) < MaxCalls - 1
    /\ returned' = Append(returned, [variant |-> variant,
                                     use_sentiment |-> use_sentiment,
                                     G |-> G,
                                     major_entities |-> major_entities,
                                     min_mentions |-> min_mentions,
                                     origin |-> origin,
                                     analyzed |-> analyzed])
    /\ \E order \in IterationOrders(1..Len(sentences)) :
          /\ sentences' = [k \in 1..Len(sentences) |-> sentences[order[k]]]
          /\ origin' = [k \in 1..Len(sentences) |-> origin[order[k]]]
    /\ min_mentions' \in Thresholds
    /\ pc' = "count"
    /\ i' = 1
    /\ entity_counts' = counts_0
    /\ major_entities' = {}
    /\ full_connections' = EmptyDict
    /\ major_to_major_connections' = EmptyDict
    /\ sentiment_data' = EmptyDict
    /\ pairs' = <<>>
    /\ analyzed' = <<>>
    /\ G' = EmptyGraph
    /\ UNCHANGED <<variant, entity_types, use_sentiment, rounded, sentiment_result, score,
                   extractor, analyzer>>

\* Mutant of CallAgain: the mention counter outlives the call
CallAgainKeepingCounts == Recall(entity_counts)

\* entity_counts: Counter[str] = Counter()
CallAgain == Recall(EmptyDict)



\* ------------------------------------------------------------------ get_unique_entities
\* EntityExtractor.get_unique_entities (lines 31-32)
GetUniqueEntities ==
    /\ variant = "extract"
    /\ pc = "call"
    /\ entity_set' = Some(get_unique_entities(entity_types, sentences[1]))
    /\ pc' = "done"
    /\ UNCHANGED <<inputs, i, locals, returned, rounded, sentiment_result, score,
                   entity_types_arg, analyzer>>

\* get_unique_entities of src/src/entity_extractor.py (lines 10-11)
FnGetUniqueEntities ==
    /\ variant = "fn_extract"
    /\ pc = "call"
    /\ entity_set' = Some(fn_get_unique_entities(sentences[1]))
    /\ pc' = "done"
    /\ UNCHANGED <<inputs, i, locals, returned, rounded, sentiment_result, score,
                   entity_types_arg, analyzer>>


\* ------------------------------------------------------------------ SentimentAnalyzer.analyze
\* What analyze leaves alone
besides ==
    <<variant, entity_types, use_sentiment, sentences, min_mentions, origin, locals,
      returned, rounded, score, extractor>>

\* self._initialize_pipeline() (line 113, lines 83-101): nothing when _pipeline
\* is set; otherwise pipeline(...) and AutoTokenizer.from_pretrained(...) are
\* called in turn, each can raise, and the exception is raised again
InitializePipeline ==
    /\ variant = "analyze"
    /\ pc = "call"
    /\ IF _pipeline = None
       THEN \/ /\ pc' = "load failed"
               /\ UNCHANGED <<_pipeline, _tokenizer>>
            \/ /\ _pipeline' = Some("pipeline")
               /\ pc' = "load failed"
               /\ UNCHANGED _tokenizer
            \/ /\ _pipeline' = Some("pipeline")
               /\ _tokenizer' = Some("tokenizer")
               /\ pc' = "texts"
       ELSE /\ pc' = "texts"
            /\ UNCHANGED <<_pipeline, _tokenizer>>
    /\ UNCHANGED <<besides, i, batch_size, text, results, sentiment_result>>

\* Lines 115-121
CheckTexts ==
    /\ variant = "analyze"
    /\ pc = "texts"
    /\ LET texts == TextsOf(text)
       IN  IF texts = <<>> \/ \E k \in DOMAIN texts : texts[k] = 0
           THEN pc' = "ValueError" /\ UNCHANGED <<i, results>>
           ELSE pc' = "batch" /\ i' = 0 /\ results' = <<>>
    /\ UNCHANGED <<besides, _pipeline, _tokenizer, batch_size, text, sentiment_result>>

\* One round of the loop of lines 122-158: the pipeline raises, or gives the
\* results of the batch
AnalyzeBatch ==
    /\ variant = "analyze"
    /\ pc = "batch"
    /\ i < Len(TextsOf(text))
    /\ \/ /\ pc' = "pipeline failed"
          /\ UNCHANGED <<i, results>>
       \/ \E nested \in BOOLEAN, full \in BOOLEAN :
             LET batch == Batch(TextsOf(text), i, batch_size)
                 zipped == Zip(batch, Pipeline(batch, nested))
             IN  /\ results' = results \o
                        [k \in DOMAIN zipped |->
                            MakeResult(zipped[k][1], zipped[k][2],
                                       full /\ _tokenizer # None)]
                 /\ i' = i + batch_size
                 /\ pc' = "batch"
    /\ UNCHANGED <<besides, _pipeline, _tokenizer, batch_size, text, sentiment_result>>

\* return results[0] if is_single else results (line 160)
AnalyzeReturn ==
    /\ variant = "analyze"
    /\ pc = "batch"
    /\ i >= Len(TextsOf(text))
    /\ sentiment_result' = Some(IF text.is_str THEN results[1] ELSE results)
    /\ pc' = "returned"
    /\ UNCHANGED <<besides, i, analyzer>>

\* analyze has returned or raised, and is called again on the same analyzer
AnalyzeAgain ==
    /\ variant = "analyze"
    /\ pc \in {"returned", "load failed", "ValueError", "pipeline failed"}
    /\ text' \in AnalyzeArguments
    /\ pc' = "call"
    /\ i' = 0
    /\ results' = <<>>
    /\ sentiment_result' = None
    /\ UNCHANGED <<besides, _pipeline, _tokenizer, batch_size>>

\* The two classes of builder: GraphBuilder(entity_extractor, use_sentiment)
\* and the function-style module
Builders ==
    [variant : {"GraphBuilder"}, use_sentiment : BOOLEAN] \cup
    {[variant |-> "function", use_sentiment |-> FALSE]}

\* build_graph_from_sentences returns G (line 168) and the same sentences and
\* threshold are given to another builder
CallOther ==
    /\ variant \in {"GraphBuilder", "function"}
    /\ pc = "done"
    /\ Len(returned) < MaxCalls - 1
    /\ returned' = Append(returned, [variant |-> variant,
                                     use_sentiment |-> use_sentiment,
                                     G |-> G,
                                     major_entities |-> major_entities,
                                     min_mentions |-> min_mentions,
                                     origin |-> origin,
                                     analyzed |-> analyzed])
    /\ \E builder \in Builders :
          /\ builder # [variant |-> variant, use_sentiment |-> use_sentiment]
          /\ variant' = builder.variant
          /\ use_sentiment' = builder.use_sentiment
    /\ pc' = "count"
    /\ i' = 1
    /\ entity_counts' = EmptyDict
    /\ major_entities' = {}
    /\ full_connections' = EmptyDict
    /\ major_to_major_connections' = EmptyDict
    /\ sentiment_data' = EmptyDict
    /\ pairs' = <<>>
    /\ analyzed' = <<>>
    /\ G' = EmptyGraph
    /\ UNCHANGED <<entity_types, sentences, min_mentions, origin, rounded,
                   sentiment_result, score, extractor, analyzer>>

Next ==
    \/ CountSentence
    \/ FilterMajor
    \/ PairSentence
    \/ CreateNodes
    \/ CreateEdges
    \/ FnCountSentence
    \/ FnFilterMajor
    \/ FnPairSentence
    \/ FnCreateNodes
    \/ FnCreateEdges
    \/ StatisticsSentence
    \/ StatisticsReturn

Spec == Init /\ [][Next]_vars

\* The same calls on the one-sentence documents with up to NumWideEntities names
SpecWide == InitWide /\ [][Next]_vars

\* The calls followed by a second call, on the documents of up to
\* MaxAgainSentences sentences
NextAgain == Next \/ CallAgain

SpecAgain == InitAgain /\ [][NextAgain]_vars

\* The calls followed by a call of another builder on the same sentences
NextOther == Next \/ CallOther

SpecOther == Init /\ [][NextOther]_vars

\* The calls on the documents made of the scenario's sentences
SpecScenario == InitScenario /\ [][Next]_vars

\* get_unique_entities on the labelled sentences
NextExtract == GetUniqueEntities \/ FnGetUniqueEntities

SpecExtract == InitExtract /\ [][NextExtract]_vars

\* The calls of analyze on one SentimentAnalyzer
NextAnalyze ==
    \/ InitializePipeline
    \/ CheckTexts
    \/ AnalyzeBatch
    \/ AnalyzeReturn
    \/ AnalyzeAgain

SpecAnalyze == InitAnalyze /\ [][NextAnalyze]_vars

\* _convert_sentiment_to_score on the labels of its lists
NextScore == ConvertSentimentToScore

SpecScore == InitScore /\ [][NextScore]_vars

\* ------------------------------------------------------------------ what the document says
\* Read off the sentences directly, without the extractor or the counters.
EntitiesOf(k) ==
    {sentences[k][j].text :
        j \in {j \in 1..Len(sentences[k]) : sentences[k][j].label_ \in entity_types}}

InSentence(e, k) == e \in EntitiesOf(k)

Mentioned == UNION {EntitiesOf(k) : k \in 1..Len(sentences)}

SentencesWith(e) == {k \in 1..Len(sentences) : InSentence(e, k)}

SentenceCount(e) == Cardinality(SentencesWith(e))

MajorByCount == {e \in Mentioned : SentenceCount(e) >= min_mentions}

CoCount(a, b) == Cardinality(SentencesWith(a) \cap SentencesWith(b))

\* Over the sentences ks: the sum of (number of entities of the sentence - 1)
RECURSIVE SumOthers(_)
SumOthers(ks) ==
    IF ks = {} THEN 0
    ELSE LET k == CHOOSE k \in ks : TRUE
         IN  (Cardinality(EntitiesOf(k)) - 1) + SumOthers(ks \ {k})

\* The sum of the weight attribute over the edges es of graph
RECURSIVE SumWeights(_, _)
SumWeights(graph, es) ==
    IF es = {} THEN 0
    ELSE LET e == CHOOSE e \in es : TRUE
         IN  graph.adj[e].weight + SumWeights(graph, es \ {e})

\* Number of times e is listed among the mentions of sentence k
TimesListed(e, k) ==
    Cardinality({j \in 1..Len(sentences[k]) :
        sentences[k][j].text = e /\ sentences[k][j].label_ \in entity_types})

Building == variant \in {"GraphBuilder", "function"}

\* ------------------------------------------------------------------ claims
\* C1: the set get_major_entities returns, and the node set of the built graph,
\* is exactly the set of entities whose number of containing sentences is at
\* least min_mentions (inclusive: a count equal to the threshold is major, a
\* count one below is not).
C1_MajorSetIsThreshold ==
    /\ (Building /\ pc \in {"pairs", "edges", "done"}) => major_entities = MajorByCount
    /\ (Building /\ pc = "done") => DOMAIN G.node = MajorByCount

C1_Witness ==
    /\ Building /\ pc = "done"
    /\ \E e \in DOMAIN G.node : SentenceCount(e) = min_mentions
    /\ \E e \in Mentioned : SentenceCount(e) = min_mentions - 1 /\ e \notin DOMAIN G.node

\* C2: for distinct major entities a and b the built graph has the edge a-b
\* exactly when some sentence contains both, and its weight is the number of
\* sentences containing both, those read before a or b reached the threshold
\* included.
C2_EdgeWeightIsCoCount ==
    (Building /\ pc = "done") =>
        \A a, b \in MajorByCount :
            a # b =>
                /\ ({a, b} \in DOMAIN G.adj) <=> (CoCount(a, b) >= 1)
                /\ ({a, b} \in DOMAIN G.adj) => G.adj[{a, b}].weight = CoCount(a, b)

C2_Witness ==
    /\ Building /\ pc = "done" /\ min_mentions = 2
    /\ \E a, b \in MajorByCount :
        /\ a # b
        /\ InSentence(a, 1) /\ InSentence(b, 1)
        /\ {a, b} \in DOMAIN G.adj
        /\ G.adj[{a, b}].weight = 2

\* C3: the mention count of an entity (in get_entity_statistics and in
\* get_major_entities) is the number of sentences it appears in; a sentence
\* that lists it several times counts once.
C3_CountIsSentences ==
    LET read == IF pc = "count" THEN i - 1 ELSE Len(sentences)
        seen(e) == {k \in 1..read : InSentence(e, k)}
    IN  /\ DOMAIN entity_counts = {e \in Mentioned : seen(e) # {}}
        /\ \A e \in DOMAIN entity_counts : entity_counts[e] = Cardinality(seen(e))

C3_Witness ==
    /\ variant = "statistics" /\ pc = "done"
    /\ \E e \in DOMAIN entity_counts :
        /\ entity_counts[e] = 1
        /\ \E k \in 1..Len(sentences) : TimesListed(e, k) >= 2

\* Sentences the second pass has finished
PairedSoFar == IF pc = "count" THEN 0 ELSE IF pc = "pairs" THEN i - 1 ELSE Len(sentences)

\* C4: whatever orientation a pair is produced in, its counter key is the
\* sorted one: no key is stored as (b, a) with b > a, the count under (a, b) is
\* the number of sentences read that contain both, and every key gives its own
\* edge of the graph (one edge per unordered pair).
C4_CanonicalKeys ==
    /\ \A key \in (DOMAIN major_to_major_connections) \cup (DOMAIN sentiment_data) :
          key[1] < key[2]
    /\ Building =>
          \A a, b \in Mentioned :
              a < b =>
                  CounterGet(major_to_major_connections, <<a, b>>) =
                      IF a \in major_entities /\ b \in major_entities
                      THEN Cardinality({k \in 1..PairedSoFar : InSentence(a, k) /\ InSentence(b, k)})
                      ELSE 0
    /\ (Building /\ pc = "done") =>
          Cardinality(DOMAIN G.adj) = Cardinality(DOMAIN major_to_major_connections)

C4_Witness ==
    /\ Building /\ pc = "pairs"
    /\ \E k \in DOMAIN pairs :
          /\ pairs[k][1] > pairs[k][2]
          /\ <<pairs[k][2], pairs[k][1]>> \in DOMAIN major_to_major_connections
          /\ major_to_major_connections[<<pairs[k][2], pairs[k][1]>>] = 2

\* C5: after the second pass full_connections[e] is the sum, over the sentences
\* that contain e, of the number of other entities of the sentence, minor
\* partners counted like major ones.
C5_FullConnections ==
    (Building /\ pc \in {"edges", "done"}) =>
        \A e \in Mentioned :
            CounterGet(full_connections, e) =
                SumOthers(SentencesWith(e))

C5_Witness ==
    /\ Building /\ pc = "done"
    /\ \E e \in major_entities : \E m \in Mentioned \ major_entities :
          /\ \E k \in SentencesWith(e) : InSentence(m, k) /\ Cardinality(EntitiesOf(k)) = 3
          /\ G.node[e].full_connections >= 3

\* C6: in the built graph every node's full_connections attribute is at least
\* the node's degree.
C6_FullConnectionsAtLeastDegree ==
    (Building /\ pc = "done") =>
        \A n \in DOMAIN G.node :
            /\ "full_connections" \in DOMAIN G.node[n]
            /\ G.node[n].full_connections >= degree(G, n)

C6_Witness ==
    /\ Building /\ pc = "done"
    /\ \E n \in DOMAIN G.node : degree(G, n) = 2 /\ G.node[n].full_connections = 2
    /\ \E n \in DOMAIN G.node : degree(G, n) >= 1 /\ G.node[n].full_connections > degree(G, n)

\* C7: the weights of the edges of the built graph add up to the number of
\* (sentence, unordered pair) instances whose two members are major and both
\* occur in the sentence.
C7_WeightSum ==
    (Building /\ pc = "done") =>
        SumWeights(G, DOMAIN G.adj) =
            Cardinality({x \in (1..Len(sentences)) \X (SUBSET MajorByCount) :
                            Cardinality(x[2]) = 2 /\ x[2] \subseteq EntitiesOf(x[1])})

C7_Witness ==
    /\ Building /\ pc = "done"
    /\ Cardinality(DOMAIN G.adj) >= 2
    /\ \E e \in DOMAIN G.adj : G.adj[e].weight = 2

\* C8: the node set of the graph is the major-entity set, also once the edges
\* are added; every node carries full_connections, and a major entity that
\* never shares a sentence with another entity has a node with
\* full_connections = 0.
C8_NodesAreMajor ==
    (Building /\ pc \in {"edges", "done"}) =>
        /\ DOMAIN G.node = major_entities
        /\ \A n \in DOMAIN G.node :
              /\ "full_connections" \in DOMAIN G.node[n]
              /\ (\A k \in SentencesWith(n) : EntitiesOf(k) = {n}) =>
                    G.node[n].full_connections = 0

C8_Witness ==
    /\ Building /\ pc = "done"
    /\ DOMAIN G.adj # {}
    /\ \E n \in DOMAIN G.node :
          /\ \A k \in SentencesWith(n) : EntitiesOf(k) = {n}
          /\ G.node[n].full_connections = 0

\* C9: a sentence with exactly one qualifying entity adds 1 to that entity's
\* mention count and changes no full-connection count, pair count or sentiment
\* sample; a sentence with no entity changes nothing; the graph never has a
\* self-loop.
C9_SentenceStep ==
    (i <= Len(sentences) /\ i' = i + 1) =>
        LET ents == EntitiesOf(i)
            only == CHOOSE e \in ents : TRUE
        IN  /\ (Cardinality(ents) = 1 /\ pc = "count") =>
                  /\ DOMAIN entity_counts' = (DOMAIN entity_counts) \cup {only}
                  /\ \A e \in DOMAIN entity_counts' :
                        entity_counts'[e] =
                            CounterGet(entity_counts, e) + (IF e = only THEN 1 ELSE 0)
            /\ (Cardinality(ents) = 1 /\ pc = "pairs") => UNCHANGED entity_counts
            /\ Cardinality(ents) = 1 =>
                  UNCHANGED <<full_connections, major_to_major_connections, sentiment_data>>
            /\ Cardinality(ents) = 0 =>
                  UNCHANGED <<entity_counts, major_entities, full_connections,
                              major_to_major_connections, sentiment_data, G>>

C9_NoSelfLoop == \A e \in DOMAIN G.adj : Cardinality(e) = 2

C9_SingletonAndEmptySentences == [][C9_SentenceStep /\ C9_NoSelfLoop']_vars

C9_Witness ==
    /\ variant = "GraphBuilder" /\ use_sentiment /\ pc = "done"
    /\ Len(sentences) = 2
    /\ Cardinality(EntitiesOf(1)) = 1
    /\ Cardinality(EntitiesOf(2)) = 0
    /\ EntitiesOf(1) \subseteq DOMAIN G.node

\* C10: a sentence with n >= 2 unique entities yields exactly n * (n - 1) / 2
\* pairs of distinct entities, every unordered pair once; 4 entities yield 6.
C10_PairsOfSentence ==
    (Building /\ pc = "pairs" /\ i > 1 /\ Cardinality(EntitiesOf(i - 1)) >= 2) =>
        LET ents == EntitiesOf(i - 1)
            n == Cardinality(ents)
        IN  /\ Len(pairs) = (n * (n - 1)) \div 2
            /\ \A k \in DOMAIN pairs :
                  pairs[k][1] # pairs[k][2] /\ {pairs[k][1], pairs[k][2]} \subseteq ents
            /\ \A a, b \in ents :
                  a # b =>
                      Cardinality({k \in DOMAIN pairs : {pairs[k][1], pairs[k][2]} = {a, b}}) = 1

C10_Witness ==
    /\ Building /\ pc = "pairs" /\ i = 2
    /\ Cardinality(EntitiesOf(1)) = 4
    /\ Len(pairs) = 6

\* C11: degenerate inputs are not errors.  With an empty sentence sequence, or
\* with a threshold above every mention count, the call runs to its return
\* (some step is possible until it has returned) and returns a graph with 0
\* nodes and 0 edges; an empty sequence also gives empty mention counts and an
\* empty major set.
C11_Degenerate == sentences = <<>> \/ \A e \in Mentioned : SentenceCount(e) < min_mentions

C11_DegenerateInputs ==
    (Building /\ C11_Degenerate) =>
        /\ pc # "done" => ENABLED Next
        /\ pc = "done" => (DOMAIN G.node = {} /\ DOMAIN G.adj = {})
        /\ pc # "count" => major_entities = {}
        /\ sentences = <<>> => entity_counts = EmptyDict

C11_Witness ==
    /\ Building /\ pc = "done"
    /\ \E k \in 1..Len(sentences) : Cardinality(EntitiesOf(k)) >= 2
    /\ \A e \in Mentioned : SentenceCount(e) < min_mentions
    /\ G = EmptyGraph

\* The call before this one, when this is a second call
Before == returned[Len(returned)]

SecondCall == variant \in {"GraphBuilder", "function"} /\ returned # <<>>

\* C12: a second build from the same sentences in the same order and the same
\* threshold (the classifier giving a sentence the score it gave it before),
\* returns a graph with the same nodes, edges and attribute values as the first.
C12_Idempotent ==
    (SecondCall /\ pc = "done" /\ origin = Before.origin
       /\ min_mentions = Before.min_mentions) =>
        G = Before.G

C12_Witness ==
    /\ SecondCall /\ pc = "done" /\ use_sentiment
    /\ origin = Before.origin /\ min_mentions = Before.min_mentions
    /\ G = Before.G
    /\ \E e \in DOMAIN G.adj : G.adj[e].weight = 3 /\ G.adj[e].sentiment_count = 3
    /\ \E n \in DOMAIN G.node : G.node[n].full_connections = 3

\* C19: a second build from the same sentences in another order, with the same
\* threshold and every sentence scored as before, returns the graph the first
\* returned: same nodes with the same full_connections, same edges with the
\* same weight, sentiment_count and sentiment.
C19_SentenceOrder ==
    (SecondCall /\ pc = "done" /\ min_mentions = Before.min_mentions) =>
        G = Before.G

\* C20: for the same sentence sequence and thresholds m1 <= m2, the major set
\* for m2 is a subset of the major set for m1.
C20_Antitone ==
    (SecondCall /\ pc \in {"pairs", "edges", "done"} /\ origin = Before.origin) =>
        /\ Before.min_mentions <= min_mentions =>
              major_entities \subseteq Before.major_entities
        /\ min_mentions <= Before.min_mentions =>
              Before.major_entities \subseteq major_entities

C20_Witness ==
    /\ SecondCall /\ pc = "done" /\ origin = Before.origin
    /\ Before.min_mentions < min_mentions
    /\ major_entities # {}
    /\ major_entities # Before.major_entities
    /\ major_entities \subseteq Before.major_entities

\* The edge of the graph between the two entities of a key
EdgeOf(key) == {key[1], key[2]}

WithSentiment == variant = "GraphBuilder" /\ use_sentiment

\* C13: with sentiment enabled, the sentiment of an edge is a number of 3
\* decimals within half a thousandth of the mean of the pair's sample list, its
\* sentiment_count is the length of the list, and samples 0.5 and -0.5 give 0.0.
C13_SentimentIsRoundedMean ==
    (WithSentiment /\ pc = "done") =>
        \A key \in DOMAIN major_to_major_connections :
            LET samples == sentiment_data[key]
                n == Len(samples)
                attrs == G.adj[EdgeOf(key)]
            IN  /\ attrs.sentiment % 10 = 0
                /\ n * attrs.sentiment - SumSeq(samples) \in (-5 * n)..(5 * n)
                /\ attrs.sentiment_count = n
                /\ samples \in {<<5000, -5000>>, <<-5000, 5000>>} => attrs.sentiment = 0

C13_Witness ==
    /\ WithSentiment /\ pc = "done"
    /\ \E key \in DOMAIN sentiment_data :
          /\ sentiment_data[key] = <<5000, -5000>>
          /\ G.adj[EdgeOf(key)].sentiment = 0
          /\ G.adj[EdgeOf(key)].sentiment_count = 2

\* C14: with sentiment disabled the classifier is never called, no sample is
\* recorded, and no edge of the graph has a sentiment or sentiment_count.
C14_SentimentDisabled ==
    (variant = "GraphBuilder" /\ ~use_sentiment) =>
        /\ analyzed = <<>>
        /\ sentiment_data = EmptyDict
        /\ \A e \in DOMAIN G.adj : DOMAIN G.adj[e] = {"weight"}

C14_Witness ==
    /\ variant = "GraphBuilder" /\ ~use_sentiment /\ pc = "done"
    /\ \E e \in DOMAIN G.adj : G.adj[e].weight = 2
    /\ analyzed = <<>>

\* The scores of the sentences analysed so far that contain both a and b
SamplesOf(a, b) ==
    LET both == SelectSeq(analyzed,
                          LAMBDA e : InSentence(a, e.sentence) /\ InSentence(b, e.sentence))
    IN  [k \in DOMAIN both |-> both[k].score[1]]

\* C17: when the classifier raises for a sentence the build goes on: the
\* sentence's score is 0.0, every sentence with two or more entities is analysed
\* in turn, each pair of major entities has one sample per sentence with both
\* (the 0.0 of the sentences that raised included), and a step is possible until
\* the graph is returned.
C17_ClassifierFailure ==
    WithSentiment =>
        /\ \A k \in DOMAIN analyzed :
              analyzed[k].outcome.raised => analyzed[k].score = Some(0)
        /\ {analyzed[k].sentence : k \in DOMAIN analyzed} =
              {k \in 1..PairedSoFar : Cardinality(EntitiesOf(k)) >= 2}
        /\ \A k \in 1..(Len(analyzed) - 1) : analyzed[k].sentence < analyzed[k + 1].sentence
        /\ pc # "count" =>
              \A a, b \in major_entities :
                  a < b =>
                      IF SamplesOf(a, b) = <<>> THEN <<a, b>> \notin DOMAIN sentiment_data
                      ELSE /\ <<a, b>> \in DOMAIN sentiment_data
                           /\ sentiment_data[<<a, b>>] = SamplesOf(a, b)
        /\ (pc # "done" /\ \E k \in DOMAIN analyzed : analyzed[k].outcome.raised) =>
              ENABLED Next

C17_Witness ==
    /\ WithSentiment /\ pc = "done"
    /\ Len(analyzed) = 2
    /\ analyzed[1].outcome.raised /\ ~analyzed[2].outcome.raised
    /\ \E key \in DOMAIN sentiment_data :
          /\ Len(sentiment_data[key]) = 2
          /\ sentiment_data[key][1] = 0 /\ sentiment_data[key][2] # 0
          /\ EdgeOf(key) \in DOMAIN G.adj
    /\ Cardinality(DOMAIN sentiment_data) >= 2

\* C18: with sentiment enabled every edge of the built graph has a sentiment
\* and a sentiment_count, and sentiment_count is the edge's weight, at least 1.
C18_SentimentCountIsWeight ==
    (WithSentiment /\ pc = "done") =>
        \A e \in DOMAIN G.adj :
            /\ {"sentiment", "sentiment_count"} \subseteq DOMAIN G.adj[e]
            /\ G.adj[e].sentiment_count = G.adj[e].weight
            /\ G.adj[e].sentiment_count >= 1

C18_Witness ==
    /\ WithSentiment /\ pc = "done"
    /\ \A k \in DOMAIN analyzed : analyzed[k].outcome.raised
    /\ \E e \in DOMAIN G.adj :
          G.adj[e].weight = 2 /\ G.adj[e].sentiment_count = 2 /\ G.adj[e].sentiment = 0

Converted == variant = "convert" /\ pc = "done"

NegativeVocabulary ==
    {<<"n", "e", "g", "a", "t", "i", "v", "e">>,
     <<"a", "n", "g", "e", "r">>,
     <<"s", "a", "d", "n", "e", "s", "s">>,
     <<"f", "e", "a", "r">>,
     <<"d", "i", "s", "g", "u", "s", "t">>,
     <<"d", "i", "s", "a", "p", "p", "r", "o", "v", "a", "l">>,
     <<"a", "n", "n", "o", "y", "a", "n", "c", "e">>}

PositiveVocabulary ==
    {<<"p", "o", "s", "i", "t", "i", "v", "e">>,
     <<"j", "o", "y">>,
     <<"l", "o", "v", "e">>,
     <<"o", "p", "t", "i", "m", "i", "s", "m">>,
     <<"a", "d", "m", "i", "r", "a", "t", "i", "o", "n">>,
     <<"a", "p", "p", "r", "o", "v", "a", "l">>,
     <<"c", "a", "r", "i", "n", "g">>}

NeitherVocabulary ==
    {<<"n", "e", "u", "t", "r", "a", "l">>,
     <<"s", "u", "r", "p", "r", "i", "s", "e">>,
     <<"c", "u", "r", "i", "o", "s", "i", "t", "y">>}

\* C15: for a label of the negative vocabulary, in any letter case, and a
\* confidence c, _convert_sentiment_to_score returns -c.
C15_NegativeVocabulary ==
    (Converted /\ sentiment_result.label \in CasesOf(NegativeVocabulary)) =>
        score = Some(-sentiment_result.confidence)

\* C16: for a label of the positive vocabulary, in any letter case, and a
\* confidence c, _convert_sentiment_to_score returns +c; for neutral, surprise
\* and curiosity, which contain no positive and no negative keyword, it
\* returns 0.0.
C16_PositiveAndNeither ==
    Converted =>
        /\ sentiment_result.label \in CasesOf(PositiveVocabulary) =>
              score = Some(sentiment_result.confidence)
        /\ sentiment_result.label \in CasesOf(NeitherVocabulary) =>
              score = Some(0)

C16_Witness ==
    /\ Converted
    /\ sentiment_result.label = <<"O", "P", "T", "I", "M", "I", "S", "M">>
    /\ sentiment_result.confidence = 5000
    /\ score = Some(5000)

\* The call on the scenario's three sentences with min_mentions = 2 has returned
ScenarioBuilt ==
    /\ variant \in {"GraphBuilder", "function"} /\ pc = "done" /\ min_mentions = 2
    /\ sentences = <<(<<Person(1), Person(2)>>), (<<Person(1)>>),
                     (<<Person(1), Person(2), Person(3)>>)>>

\* C21 as stated: for the sentences {Alice, Bob}, {Alice}, {Alice, Bob, Carol}
\* and min_mentions = 2 the built graph has full_connections 3 for Alice and 2
\* for Bob.
C21_ScenarioAsStated ==
    ScenarioBuilt =>
        /\ G.node[1].full_connections = 3
        /\ G.node[2].full_connections = 2

\* C21: for the sentences {Alice, Bob}, {Alice}, {Alice, Bob, Carol} and
\* min_mentions = 2 the built graph has the nodes Alice and Bob only, one edge
\* Alice-Bob of weight 2, full_connections 3 for Alice and full_connections 3
\* for Bob (Bob is paired with Alice twice and with Carol once).
C21_Scenario ==
    ScenarioBuilt =>
        /\ DOMAIN G.node = {1, 2}
        /\ G.node[1].full_connections = 3
        /\ G.node[2].full_connections = 3
        /\ DOMAIN G.adj = {{1, 2}}
        /\ G.adj[{1, 2}].weight = 2

C21_Witness ==
    /\ ScenarioBuilt
    /\ entity_counts = (1 :> 3) @@ (2 :> 2) @@ (3 :> 1)
    /\ major_entities = {1, 2}
    /\ full_connections = (1 :> 3) @@ (2 :> 3) @@ (3 :> 2)

\* C23: in build_graph_from_sentences no full-connection count, pair count or
\* sentiment sample exists or changes while the mentions are counted; a step
\* that changes one of them is a step of the second pass, taken when every
\* sentence has been counted; and from the start of the second pass on the
\* major set is the one of the complete counts and no step changes it or the
\* mention counts.
C23_Counting ==
    (Building /\ pc = "count") =>
        /\ full_connections = EmptyDict /\ full_connections' = EmptyDict
        /\ major_to_major_connections = EmptyDict /\ major_to_major_connections' = EmptyDict
        /\ sentiment_data = EmptyDict /\ sentiment_data' = EmptyDict

C23_Pairing ==
    (Building /\ <<full_connections, major_to_major_connections, sentiment_data>>' #
                 <<full_connections, major_to_major_connections, sentiment_data>>) =>
        /\ pc = "pairs" /\ pc' = "pairs"
        /\ \A e \in Mentioned : CounterGet(entity_counts, e) = SentenceCount(e)

C23_MajorFixed ==
    (Building /\ pc \in {"pairs", "edges"}) =>
        /\ major_entities = MajorByCount
        /\ major_entities' = major_entities
        /\ entity_counts' = entity_counts

C23_TwoPasses == [][C23_Counting /\ C23_Pairing /\ C23_MajorFixed]_vars

C23_Witness ==
    /\ variant = "GraphBuilder" /\ pc = "pairs" /\ i = 3 /\ Len(sentences) = 2
    /\ major_to_major_connections # EmptyDict
    /\ major_entities # {} /\ major_entities # Mentioned
    /\ \E e \in Mentioned \ major_entities : CounterGet(full_connections, e) >= 1

\* The calls of the classifier made for sentence k
CallsFor(k) == {j \in DOMAIN analyzed : analyzed[j].sentence = k}

\* The sample that sentence k, which contains both entities of key, gave to key
SampleAt(key, k) ==
    sentiment_data[key][Cardinality({j \in 1..k : InSentence(key[1], j)
                                                   /\ InSentence(key[2], j)})]

\* C24: with sentiment enabled the classifier is called once for every sentence
\* read by the second pass that has two or more unique entities, never for a
\* sentence with fewer and never ahead of the pass, and every pair of major
\* entities of a sentence has the score of that one call as its sample for the
\* sentence.
C24_OneCallPerSentence ==
    WithSentiment =>
        /\ \A k \in 1..Len(sentences) :
              Cardinality(CallsFor(k)) =
                  IF k <= PairedSoFar /\ Cardinality(EntitiesOf(k)) >= 2 THEN 1 ELSE 0
        /\ \A j \in DOMAIN analyzed :
              /\ analyzed[j].score # None
              /\ \A a, b \in major_entities :
                    (a < b /\ InSentence(a, analyzed[j].sentence)
                           /\ InSentence(b, analyzed[j].sentence)) =>
                        /\ <<a, b>> \in DOMAIN sentiment_data
                        /\ SampleAt(<<a, b>>, analyzed[j].sentence) = analyzed[j].score[1]
        /\ \A key \in DOMAIN sentiment_data :
              Len(sentiment_data[key]) =
                  Cardinality({k \in 1..PairedSoFar : InSentence(key[1], k)
                                                       /\ InSentence(key[2], k)})

C24_Witness ==
    /\ WithSentiment /\ pc = "done" /\ Len(sentences) = 2
    /\ Cardinality(EntitiesOf(1)) = 3 /\ Cardinality(EntitiesOf(2)) = 1
    /\ Len(analyzed) = 1 /\ analyzed[1].score = Some(-5000)
    /\ Cardinality(DOMAIN sentiment_data) = 3
    /\ \A key \in DOMAIN sentiment_data : sentiment_data[key] = <<-5000>>

\* No entry of the counter leaves it or gets smaller in the step
CounterGrows(c, d) ==
    /\ DOMAIN c \subseteq DOMAIN d
    /\ \A k \in DOMAIN c : c[k] <= d[k]

\* C25: from one step of a call to the next no mention count, full-connection
\* count or major-pair count gets smaller or leaves its counter, and every
\* sentiment sample list keeps the samples it has (it can only get longer).
C25_Step ==
    /\ CounterGrows(entity_counts, entity_counts')
    /\ CounterGrows(full_connections, full_connections')
    /\ CounterGrows(major_to_major_connections, major_to_major_connections')
    /\ DOMAIN sentiment_data \subseteq DOMAIN sentiment_data'
    /\ \A key \in DOMAIN sentiment_data :
          /\ Len(sentiment_data[key]) <= Len(sentiment_data'[key])
          /\ SubSeq(sentiment_data'[key], 1, Len(sentiment_data[key])) = sentiment_data[key]

C25_Monotone == [][C25_Step]_vars

C25_Witness ==
    /\ WithSentiment /\ pc = "done"
    /\ \E key \in DOMAIN sentiment_data :
          /\ Len(sentiment_data[key]) = 2
          /\ major_to_major_connections[key] = 2
          /\ entity_counts[key[1]] = 2
          /\ full_connections[key[1]] = 3

\* The nodes with their full_connections, the edges and their weights
Structure(graph) ==
    [node |-> graph.node,
     weight |-> [e \in DOMAIN graph.adj |-> graph.adj[e].weight]]

\* C28: a GraphBuilder with use_sentiment = True and one with use_sentiment =
\* False, given the same sentences and threshold, return graphs with the same
\* nodes, full_connections, edges and weights, whatever the classifier returned
\* or raised; the first has sentiment and sentiment_count on every edge and the
\* second has the weight only.
C28_SentimentOnlyAdds ==
    (SecondCall /\ pc = "done"
       /\ variant = "GraphBuilder" /\ Before.variant = "GraphBuilder") =>
        LET with == IF use_sentiment THEN G ELSE Before.G
            without == IF use_sentiment THEN Before.G ELSE G
        IN  /\ use_sentiment # Before.use_sentiment
            /\ Structure(with) = Structure(without)
            /\ \A e \in DOMAIN with.adj :
                  /\ DOMAIN with.adj[e] = {"weight", "sentiment", "sentiment_count"}
                  /\ DOMAIN without.adj[e] = {"weight"}

C28_Witness ==
    /\ SecondCall /\ pc = "done"
    /\ variant = "GraphBuilder" /\ Before.variant = "GraphBuilder"
    /\ ~use_sentiment /\ Before.use_sentiment
    /\ \E k \in DOMAIN Before.analyzed : Before.analyzed[k].outcome.raised
    /\ \E k \in DOMAIN Before.analyzed : ~Before.analyzed[k].outcome.raised
    /\ \E e \in DOMAIN G.adj :
          /\ G.adj[e].weight = 2 /\ Before.G.adj[e].weight = 2
          /\ Before.G.adj[e].sentiment # 0
    /\ \E n \in DOMAIN G.node : G.node[n].full_connections = 2

\* C29: the function-style build_graph_from_sentences and
\* GraphBuilder.build_graph_from_sentences with the default PERSON label and
\* use_sentiment = False, given the same sentences and threshold, return graphs
\* with the same nodes, full_connections, edges and weights (the same graph).
C29_VariantsAgree ==
    (SecondCall /\ pc = "done" /\ variant # Before.variant
       /\ ~use_sentiment /\ ~Before.use_sentiment) =>
        /\ entity_types = {"PERSON"}
        /\ G = Before.G
        /\ Structure(G) = Structure(Before.G)

C29_Witness ==
    /\ SecondCall /\ pc = "done"
    /\ variant = "function" /\ Before.variant = "GraphBuilder" /\ ~Before.use_sentiment
    /\ G = Before.G
    /\ \E e \in DOMAIN G.adj : G.adj[e].weight = 2
    /\ \E n \in DOMAIN G.node : G.node[n].full_connections = 3
    /\ \E k \in 1..Len(sentences) : \E j \in 1..Len(sentences[k]) :
          sentences[k][j].label_ # "PERSON"

\* The accepted labels as configured: the list given, PERSON when none is given
ConfiguredLabels == IF entity_types_arg = None THEN {"PERSON"} ELSE entity_types_arg[1]

\* C22: for every configured label set L, the empty one included (PERSON when
\* none is configured), get_unique_entities returns the set of the texts of the
\* sentence's entities whose label is in L, each text once and as it is, and
\* returns the empty set (it has nothing else to do) when no entity qualifies.
C22_UniqueEntities ==
    (variant \in {"extract", "fn_extract"}) =>
        /\ pc = "call" => ENABLED NextExtract
        /\ pc = "done" =>
              entity_set =
                  Some({sentences[1][j].text :
                          j \in {j \in 1..Len(sentences[1]) :
                                    sentences[1][j].label_ \in ConfiguredLabels}})

\* The result analyze owes to a text
Owed(txt) ==
    [text |-> txt, label |-> ModelOutput(txt).label,
     confidence |-> Round4(ModelOutput(txt).score)]

Attributed(result, txt) ==
    [f \in {"text", "label", "confidence"} |-> result[f]] = Owed(txt)

\* C27: analyze called on a list of n non-blank texts returns n results, the
\* k-th being the result of the k-th text, for every batch_size >= 1; while the
\* batches are made, the results so far are those of the texts before the next
\* batch, in their order.
C27_BatchesKeepOrder ==
    (variant = "analyze" /\ ~text.is_str) =>
        /\ pc = "batch" =>
              /\ Len(results) = (IF i <= Len(text.value) THEN i ELSE Len(text.value))
              /\ \A k \in DOMAIN results : Attributed(results[k], text.value[k])
        /\ pc = "returned" =>
              /\ \A k \in DOMAIN text.value : text.value[k] # 0
              /\ Len(sentiment_result[1]) = Len(text.value)
              /\ \A k \in DOMAIN text.value :
                    Attributed(sentiment_result[1][k], text.value[k])

C27_Witness ==
    /\ variant = "analyze" /\ pc = "returned"
    /\ ~text.is_str /\ text.value = <<1, 2, 1>>
    /\ batch_size = 2
    /\ Len(sentiment_result[1]) = 3
    /\ sentiment_result[1][3].label = <<"j", "o", "y">>
    /\ sentiment_result[1][2].label = <<"a", "n", "g", "e", "r">>

\* C30: after any sequence of analyze calls, failed loads included, _pipeline
\* and _tokenizer are both unset or both loaded, and a call whose load failed
\* leaves both unset (so that the next call loads again).
C30_LoadedTogether ==
    (variant = "analyze"
       /\ pc \in {"returned", "load failed", "ValueError", "pipeline failed"}) =>
        /\ (_pipeline = None) <=> (_tokenizer = None)
        /\ pc = "load failed" => (_pipeline = None /\ _tokenizer = None)

====
